---- MODULE Spec2Model ----
(***************************************************************************)
(* TOTP seed service (src/app.py): RSA-OAEP seed provisioning, persistence *)
(* of the seed through a temporary file and os.replace, and TOTP code      *)
(* generation / verification from the stored seed.                         *)
(*                                                                         *)
(* Text is modelled as a sequence of one-character strings, a file system  *)
(* as a directory (path -> inode) plus the inodes' contents, and a Python  *)
(* exception as the "exc" field of a result record.                        *)
(***************************************************************************)
EXTENDS Integers, Sequences, FiniteSets, TLC

(***************************************************************************)
(* Bounds of the model.                                                    *)
(***************************************************************************)
\* first and last wall-clock second (unix time) of the explored window
StartTime == 58
MaxTime == 90
\* seconds the service specifications run for, ending at MaxTime
RunTime == 1
\* how many counters before/after the window a submitted code may stem from
CodeSkew == 2

(***************************************************************************)
(* Program constants.                                                      *)
(***************************************************************************)
SEED_PATH == "/data/seed.txt"
SeedLen == 64
Interval == 30
ValidWindow == 1

(***************************************************************************)
(* Text helpers (str.strip, str.lower, len).                               *)
(***************************************************************************)
Whitespace == {" ", "\n", "\t", "\r"}

Chars(pattern, n) == [i \in 1..n |-> pattern[((i - 1) % Len(pattern)) + 1]]

\* str.strip(): drop leading and trailing whitespace
RECURSIVE FirstKept(_, _)
FirstKept(s, i) == IF i > Len(s) \/ s[i] \notin Whitespace THEN i ELSE FirstKept(s, i + 1)

RECURSIVE LastKept(_, _)
LastKept(s, i) == IF i < 1 \/ s[i] \notin Whitespace THEN i ELSE LastKept(s, i - 1)

Strip(s) == SubSeq(s, FirstKept(s, 1), LastKept(s, Len(s)))

LowerOf == [c \in {"A", "B", "C", "D", "E", "F", "G"} |->
              CASE c = "A" -> "a" [] c = "B" -> "b" [] c = "C" -> "c"
                [] c = "D" -> "d" [] c = "E" -> "e" [] c = "F" -> "f"
                [] c = "G" -> "g"]

Lower(c) == IF c \in DOMAIN LowerOf THEN LowerOf[c] ELSE c

valid_hex_chars ==
  {"0", "1", "2", "3", "4", "5", "6", "7", "8", "9", "a", "b", "c", "d", "e", "f"}

HexValue(c) ==
  LET l == Lower(c)
  IN  CASE l = "0" -> 0 [] l = "1" -> 1 [] l = "2" -> 2 [] l = "3" -> 3
        [] l = "4" -> 4 [] l = "5" -> 5 [] l = "6" -> 6 [] l = "7" -> 7
        [] l = "8" -> 8 [] l = "9" -> 9 [] l = "a" -> 10 [] l = "b" -> 11
        [] l = "c" -> 12 [] l = "d" -> 13 [] l = "e" -> 14 [] l = "f" -> 15

IsHex(c) == Lower(c) \in valid_hex_chars

(***************************************************************************)
(* Codec: bytes.fromhex, base64.b32encode, and the base32 decoding pyotp   *)
(* applies to the secret it is given.                                      *)
(***************************************************************************)
\* bytes.fromhex: whitespace between byte pairs is skipped, every byte is
\* two hex digits; anything else raises ValueError
RECURSIVE FromHexAt(_, _, _)
FromHexAt(s, i, acc) ==
  IF i > Len(s) THEN [exc |-> "none", bytes |-> acc]
  ELSE IF s[i] \in Whitespace THEN FromHexAt(s, i + 1, acc)
  ELSE IF i + 1 <= Len(s) /\ IsHex(s[i]) /\ IsHex(s[i + 1])
       THEN FromHexAt(s, i + 2, Append(acc, 16 * HexValue(s[i]) + HexValue(s[i + 1])))
       ELSE [exc |-> "ValueError", bytes |-> <<>>]

BytesFromHex(s) == FromHexAt(s, 1, <<>>)

B32Alphabet ==
  << "A", "B", "C", "D", "E", "F", "G", "H", "I", "J", "K", "L", "M", "N", "O", "P",
     "Q", "R", "S", "T", "U", "V", "W", "X", "Y", "Z", "2", "3", "4", "5", "6", "7" >>

Pow2 == [e \in 0..7 |-> CASE e = 0 -> 1 [] e = 1 -> 2 [] e = 2 -> 4 [] e = 3 -> 8
                          [] e = 4 -> 16 [] e = 5 -> 32 [] e = 6 -> 64 [] e = 7 -> 128]

\* bit k (0-based, most significant first) of a sequence of w-bit digits
BitOf(digits, w, k) ==
  IF k >= w * Len(digits) THEN 0
  ELSE (digits[(k \div w) + 1] \div Pow2[w - 1 - (k % w)]) % 2

\* the number that bits from .. from+n-1 of a sequence of w-bit digits spell
BitsValue(digits, w, from, n) ==
  LET RECURSIVE Acc(_, _)
      Acc(i, v) == IF i = n THEN v ELSE Acc(i + 1, 2 * v + BitOf(digits, w, from + i))
  IN  Acc(0, 0)

\* base64.b32encode: 5-bit groups, zero-filled, "="-padded to a multiple of 8
B32Encode(bytes) ==
  LET n == (8 * Len(bytes) + 4) \div 5
      pad == (8 - (n % 8)) % 8
  IN  [j \in 1..(n + pad) |->
         IF j <= n THEN B32Alphabet[BitsValue(bytes, 8, 5 * (j - 1), 5) + 1] ELSE "="]

B32Index(c) == CHOOSE i \in 1..32 : B32Alphabet[i] = c

\* pyotp's byte_secret: re-pad the secret and base32-decode it
B32Decode(text) ==
  LET body == SelectSeq(text, LAMBDA c : c # "=")
      digits == [j \in 1..Len(body) |-> B32Index(body[j]) - 1]
      n == (5 * Len(body)) \div 8
  IN  [j \in 1..n |-> BitsValue(digits, 5, 8 * (j - 1), 8)]

hex_to_base32(hex_seed) ==
  LET seed_bytes == BytesFromHex(hex_seed)
  IN  IF seed_bytes.exc # "none"
      THEN [exc |-> "ValueError", b32 |-> <<>>]
      ELSE [exc |-> "none",
            b32 |-> SelectSeq(Strip(B32Encode(seed_bytes.bytes)), LAMBDA c : c # "=")]

(***************************************************************************)
(* Inputs of the provisioning endpoint.  A request carries the text of its *)
(* encrypted_seed field; what base64 and RSA-OAEP make of that text is     *)
(* carried along with it: "empty" text, "malformed" base64, or "wellformed"*)
(* base64 of a ciphertext that either decrypts under the loaded key to a   *)
(* plaintext or does not.                                                  *)
(***************************************************************************)
SeedA == Chars(<<"1", "a">>, SeedLen)
SeedB == Chars(<<"F", "0", "9", "c">>, SeedLen)

NoCiphertext == [decrypts |-> FALSE, utf8 |-> FALSE, text |-> <<>>]
Encrypted(text) == [decrypts |-> TRUE, utf8 |-> TRUE, text |-> text]

ReqEmpty == [b64 |-> "empty", decoded |-> NoCiphertext]
ReqMalformed == [b64 |-> "malformed", decoded |-> NoCiphertext]
ReqGarbage == [b64 |-> "wellformed", decoded |-> NoCiphertext]
ReqNotUtf8 == [b64 |-> "wellformed",
               decoded |-> [decrypts |-> TRUE, utf8 |-> FALSE, text |-> <<>>]]
ReqSeedA == [b64 |-> "wellformed", decoded |-> Encrypted(SeedA)]
ReqSeedB == [b64 |-> "wellformed", decoded |-> Encrypted(<<" ">> \o SeedB \o <<"\n">>)]
ReqShort == [b64 |-> "wellformed", decoded |-> Encrypted(Chars(<<"1", "a">>, SeedLen - 1))]
ReqNonHex == [b64 |-> "wellformed",
              decoded |-> Encrypted(Chars(<<"1", "a">>, SeedLen - 1) \o <<"g">>)]

Requests ==
  {ReqEmpty, ReqMalformed, ReqGarbage, ReqNotUtf8, ReqSeedA, ReqSeedB, ReqShort, ReqNonHex}

\* base64.b64decode of the request text
b64decode(req) ==
  IF req.b64 = "malformed" THEN [exc |-> "binascii.Error", ciphertext |-> NoCiphertext]
  ELSE [exc |-> "none", ciphertext |-> req.decoded]

(***************************************************************************)
(* Decryptor.                                                              *)
(***************************************************************************)
\* variant: the library's own exception of a failed decryption (a ValueError)
\* is let through instead of being re-raised as RuntimeError
decrypt_seed_from_bytes_unwrapped(ciphertext) ==
  IF ~ciphertext.decrypts
  THEN [exc |-> "ValueError", msg |-> "Decryption failed", seed_hex |-> <<>>]
  ELSE IF ~ciphertext.utf8
  THEN [exc |-> "ValueError", msg |-> "codec can't decode", seed_hex |-> <<>>]
  ELSE LET seed_hex == Strip(ciphertext.text)
       IN  IF Len(seed_hex) # SeedLen
           THEN [exc |-> "ValueError", msg |-> "Invalid seed length", seed_hex |-> <<>>]
           ELSE IF ~(\A i \in 1..Len(seed_hex) : Lower(seed_hex[i]) \in valid_hex_chars)
           THEN [exc |-> "ValueError", msg |-> "Seed contains non-hex characters",
                 seed_hex |-> <<>>]
           ELSE [exc |-> "none", msg |-> "", seed_hex |-> seed_hex]

decrypt_seed_from_bytes(ciphertext) ==
  IF ~ciphertext.decrypts
  THEN [exc |-> "RuntimeError", msg |-> "Decryption failed (Key or Parameter Mismatch)",
        seed_hex |-> <<>>]
  ELSE IF ~ciphertext.utf8
  THEN [exc |-> "ValueError", msg |-> "codec can't decode", seed_hex |-> <<>>]
  ELSE LET seed_hex == Strip(ciphertext.text)
       IN  IF Len(seed_hex) # SeedLen
           THEN [exc |-> "ValueError", msg |-> "Invalid seed length", seed_hex |-> <<>>]
           ELSE IF ~(\A i \in 1..Len(seed_hex) : Lower(seed_hex[i]) \in valid_hex_chars)
           THEN [exc |-> "ValueError", msg |-> "Seed contains non-hex characters",
                 seed_hex |-> <<>>]
           ELSE [exc |-> "none", msg |-> "", seed_hex |-> seed_hex]

(***************************************************************************)
(* File system: a directory of two paths and a pool of inodes.  An inode   *)
(* that no path and no open file refers to is free and holds nothing.      *)
(***************************************************************************)
NoFile == 0
\* the server's worker processes, each serving one request at a time
Workers == {"w1", "w2"}
Inodes == 1..(Cardinality(Workers) + 2)

\* variant: the seed is written straight to the canonical path
TmpPathInPlace(path) == path

TmpPath(path) == path \o ".tmp"

Paths == {SEED_PATH, TmpPath(SEED_PATH)}

Range(f) == {f[x] : x \in DOMAIN f}

Referenced(dir, held) == (Range(dir) \cup held) \ {NoFile}

\* forget what free inodes held
Collect(fsys, held) ==
  [fsys EXCEPT !.data = [i \in Inodes |->
      IF i \in Referenced(fsys.dir, held) THEN fsys.data[i] ELSE <<>>]]

\* open(path, "w"): truncate the file the path names, or create it
OpenW(fsys, path, held) ==
  IF fsys.dir[path] # NoFile
  THEN [ino |-> fsys.dir[path],
        fsys |-> [fsys EXCEPT !.data[fsys.dir[path]] = <<>>]]
  ELSE LET free == Inodes \ Referenced(fsys.dir, held)
           i == CHOOSE x \in free : \A y \in free : x <= y
       IN  [ino |-> i,
            fsys |-> [dir |-> [fsys.dir EXCEPT ![path] = i],
                      data |-> [fsys.data EXCEPT ![i] = <<>>]]]

\* write(2) of text at offset 0 of an inode
WriteAt0(fsys, ino, text) ==
  LET old == fsys.data[ino]
      n == IF Len(old) > Len(text) THEN Len(old) ELSE Len(text)
  IN  [fsys EXCEPT !.data[ino] = [k \in 1..n |-> IF k <= Len(text) THEN text[k] ELSE old[k]]]

\* os.replace(src, dst)
Replace(fsys, src, dst) ==
  IF fsys.dir[src] = NoFile THEN [exc |-> "FileNotFoundError", fsys |-> fsys]
  ELSE IF src = dst THEN [exc |-> "none", fsys |-> fsys]
  ELSE [exc |-> "none",
        fsys |-> [fsys EXCEPT !.dir = [p \in Paths |->
                    IF p = dst THEN fsys.dir[src] ELSE IF p = src THEN NoFile
                    ELSE fsys.dir[p]]]]

\* what open(path).read() returns; meaningful when the path exists
FileText(fsys, path) == fsys.data[fsys.dir[path]]

\* variant: no os.path.exists check, a missing file reads as an invalid one
read_seed_noexists(fsys) ==
  IF fsys.dir[SEED_PATH] = NoFile
  THEN [exc |-> "ValueError", s |-> <<>>]
  ELSE LET s == Strip(FileText(fsys, SEED_PATH))
       IN  IF Len(s) # SeedLen THEN [exc |-> "ValueError", s |-> <<>>]
           ELSE [exc |-> "none", s |-> s]

read_seed(fsys) ==
  IF fsys.dir[SEED_PATH] = NoFile
  THEN [exc |-> "FileNotFoundError", s |-> <<>>]
  ELSE LET s == Strip(FileText(fsys, SEED_PATH))
       IN  IF Len(s) # SeedLen THEN [exc |-> "ValueError", s |-> <<>>]
           ELSE [exc |-> "none", s |-> s]

(***************************************************************************)
(* TOTP engine (pyotp.TOTP with its defaults: 6 digits, 30 s interval).    *)
(* The HMAC-SHA1 digest, its truncation and its formatting to 6 digits are *)
(* kept symbolic: the code of key k and counter c is the pair (k, c), so   *)
(* codes of distinct keys or counters are distinct.                        *)
(***************************************************************************)
NoKey == <<>>
EmptyCode == [digits |-> "", key |-> NoKey, counter |-> 0]
ZeroCode == [digits |-> "000000", key |-> NoKey, counter |-> 0]

timecode(t) == t \div Interval

generate_otp(key, counter) ==
  IF counter < 0 THEN [exc |-> "ValueError", code |-> EmptyCode]
  ELSE [exc |-> "none", code |-> [digits |-> "hotp", key |-> key, counter |-> counter]]

\* TOTP.at(for_time, counter_offset)
totp_at(key, for_time, counter_offset) ==
  generate_otp(key, timecode(for_time) + counter_offset)

\* variant: valid_window is dropped, only the current step's code is accepted
totp_verify_nowindow(key, otp, for_time, valid_window) ==
  IF totp_at(key, for_time, 0).exc # "none" THEN [exc |-> "ValueError", valid |-> FALSE]
  ELSE [exc |-> "none", valid |-> totp_at(key, for_time, 0).code = otp]

\* TOTP.verify(otp, valid_window): offsets are tried in increasing order, an
\* exception of an earlier offset ends the call
totp_verify(key, otp, for_time, valid_window) ==
  LET offsets == (0 - valid_window)..valid_window
      hit(i) == totp_at(key, for_time, i).exc = "none" /\ totp_at(key, for_time, i).code = otp
      raises(i) == totp_at(key, for_time, i).exc # "none"
  IN  IF \E i \in offsets : raises(i) /\ \A j \in offsets : j < i => ~hit(j)
      THEN [exc |-> "ValueError", valid |-> FALSE]
      ELSE [exc |-> "none", valid |-> \E i \in offsets : hit(i)]

\* variant: the remainder is taken after the subtraction
ValidForWrapped(t) == (Interval - t) % Interval

ValidFor(t) == Interval - (t % Interval)

\* the key pyotp.TOTP(hex_to_base32(hex_seed)) computes with
totp_secret(hex_seed) ==
  LET b32 == hex_to_base32(hex_seed)
  IN  IF b32.exc # "none" THEN [exc |-> b32.exc, key |-> NoKey]
      ELSE [exc |-> "none", key |-> B32Decode(b32.b32)]

\* 31 bytes in hex with two blanks between bytes: 64 characters
SpacedSeed ==
  Chars(<<"1", "a">>, SeedLen \div 2 - 2) \o <<" ">> \o Chars(<<"1", "a">>, SeedLen \div 2 - 2)
    \o <<" ">> \o Chars(<<"1", "a">>, 2)

\* texts found in a seed file that was written or damaged out of band
TamperedTexts ==
  { <<>>,
    Chars(<<"1", "a">>, SeedLen - 1) \o <<"\n">>,
    Chars(<<"1", "a">>, SeedLen - 1) \o <<"g", "\n">>,
    Chars(<<"1", "a">>, SeedLen + 1) \o <<"\n">>,
    SpacedSeed \o <<"\n">>,
    SeedA \o <<"\n">> }

\* totp_secret of the texts the model stores, computed once
StoredTexts == {SeedA, SeedB} \cup {Strip(text) : text \in TamperedTexts}
SecretOf == [h \in StoredTexts |-> totp_secret(h)]
Secret(hex_seed) ==
  IF hex_seed \in StoredTexts THEN SecretOf[hex_seed] ELSE totp_secret(hex_seed)

\* generate_totp_from_hex up to totp.now(): the first clock read
generate_code(hex_seed, t) ==
  LET k == Secret(hex_seed)
  IN  IF k.exc # "none" THEN [exc |-> k.exc, code |-> EmptyCode]
      ELSE totp_at(k.key, t, 0)

verify_totp_from_hex(hex_seed, code, valid_window, t) ==
  LET k == Secret(hex_seed)
  IN  IF k.exc # "none" THEN [exc |-> k.exc, valid |-> FALSE]
      ELSE totp_verify(k.key, code, t, valid_window)

(***************************************************************************)
(* State.                                                                  *)
(***************************************************************************)
VARIABLES
  keyLoaded,    \* PRIVATE_KEY is not None
  fs,           \* the seed directory: [dir: path -> inode, data: inode -> text]
  worker,       \* per worker, its call of decrypt_seed_endpoint in save_seed_atomic
  gen,          \* the call of generate_2fa_endpoint between its two clock reads
  now,          \* the wall clock, whole unix seconds
  resp,         \* the response sent last
  provisioned   \* history: the seed of the last provisioning answered {"status": "ok"}

vars == <<keyLoaded, fs, worker, gen, now, resp, provisioned>>

NoReq == [b64 |-> "none", decoded |-> NoCiphertext]

Response(op, status, detail) ==
  [op |-> op, status |-> status, detail |-> detail, req |-> NoReq,
   code |-> EmptyCode, valid_for |-> 0, valid |-> FALSE]

IdleWorker == [pc |-> "idle", req |-> NoReq, seed_hex |-> <<>>, fd |-> NoFile]
IdleGen == [pc |-> "idle", code |-> EmptyCode]

Held == {worker[p].fd : p \in Workers} \ {NoFile}

EmptyFs == [dir |-> [p \in Paths |-> NoFile], data |-> [i \in Inodes |-> <<>>]]

Init ==
  /\ keyLoaded \in BOOLEAN
  /\ fs = EmptyFs
  /\ worker = [p \in Workers |-> IdleWorker]
  /\ gen = IdleGen
  /\ now = MaxTime - RunTime
  /\ resp = Response("none", 0, "")
  /\ provisioned = <<>>

(***************************************************************************)
(* POST /decrypt-seed                                                      *)
(***************************************************************************)
\* variant: no check of PRIVATE_KEY, so a missing key fails inside the decryption
provision_checks_nokeycheck(req, key_loaded) ==
  IF req.b64 = "empty"
  THEN [status |-> 400, detail |-> "Missing encrypted_seed", seed_hex |-> <<>>]
  ELSE IF b64decode(req).exc # "none"
  THEN [status |-> 400, detail |-> "Invalid base64", seed_hex |-> <<>>]
  ELSE LET d == decrypt_seed_from_bytes(b64decode(req).ciphertext)
       IN  IF ~key_loaded
           THEN [status |-> 500, detail |-> "Decryption failed", seed_hex |-> <<>>]
           ELSE IF d.exc = "ValueError"
           THEN [status |-> 400, detail |-> d.msg, seed_hex |-> <<>>]
           ELSE IF d.exc # "none"
           THEN [status |-> 500, detail |-> "Decryption failed", seed_hex |-> <<>>]
           ELSE [status |-> 200, detail |-> "ok", seed_hex |-> d.seed_hex]

\* decrypt_seed_endpoint up to the call of save_seed_atomic
provision_checks(req, key_loaded) ==
  IF req.b64 = "empty"
  THEN [status |-> 400, detail |-> "Missing encrypted_seed", seed_hex |-> <<>>]
  ELSE IF ~key_loaded
  THEN [status |-> 500, detail |-> "Server private key not available", seed_hex |-> <<>>]
  ELSE IF b64decode(req).exc # "none"
  THEN [status |-> 400, detail |-> "Invalid base64", seed_hex |-> <<>>]
  ELSE LET d == decrypt_seed_from_bytes(b64decode(req).ciphertext)
       IN  IF d.exc = "ValueError"
           THEN [status |-> 400, detail |-> d.msg, seed_hex |-> <<>>]
           ELSE IF d.exc # "none"
           THEN [status |-> 500, detail |-> "Decryption failed", seed_hex |-> <<>>]
           ELSE [status |-> 200, detail |-> "ok", seed_hex |-> d.seed_hex]

\* the request is checked and decrypted; on success save_seed_atomic opens
\* (creates or truncates) the temporary file
ProvisionCall(p, req) ==
  /\ worker[p].pc = "idle"
  /\ LET out == provision_checks(req, keyLoaded)
     IN  IF out.status # 200
         THEN /\ resp' = [Response("provision", out.status, out.detail) EXCEPT !.req = req]
              /\ UNCHANGED <<fs, worker>>
         ELSE LET o == OpenW(fs, TmpPath(SEED_PATH), Held)
              IN  /\ fs' = o.fsys
                  /\ worker' = [worker EXCEPT ![p] =
                        [pc |-> "opened", req |-> req, seed_hex |-> out.seed_hex,
                         fd |-> o.ino]]
                  /\ UNCHANGED resp
  /\ UNCHANGED <<keyLoaded, gen, now, provisioned>>

\* f.write(seed_hex.strip() + "\n") reaches the file when the with block
\* closes it: one write at offset 0 of the inode the worker opened
SaveWrite(p) ==
  /\ worker[p].pc = "opened"
  /\ LET w == [worker EXCEPT ![p].pc = "closed", ![p].fd = NoFile]
         held == {w[q].fd : q \in Workers} \ {NoFile}
     IN  /\ worker' = w
         /\ fs' = Collect(WriteAt0(fs, worker[p].fd, Strip(worker[p].seed_hex) \o <<"\n">>),
                          held)
  /\ UNCHANGED <<keyLoaded, gen, now, resp, provisioned>>

\* os.replace(tmp_path, path) and the endpoint's answer
SaveReplace(p) ==
  /\ worker[p].pc = "closed"
  /\ LET r == Replace(fs, TmpPath(SEED_PATH), SEED_PATH)
     IN  IF r.exc # "none"
         THEN /\ resp' = [Response("provision", 500, "Failed to persist seed")
                            EXCEPT !.req = worker[p].req]
              /\ UNCHANGED <<fs, provisioned>>
         ELSE /\ fs' = Collect(r.fsys, Held)
              /\ resp' = [Response("provision", 200, "ok") EXCEPT !.req = worker[p].req]
              /\ provisioned' = worker[p].seed_hex
  /\ worker' = [worker EXCEPT ![p] = IdleWorker]
  /\ UNCHANGED <<keyLoaded, gen, now>>

\* the worker process dies inside save_seed_atomic and is restarted: nothing
\* is answered; a death inside the write leaves none or a part of the text
Crash(p) ==
  /\ worker[p].pc \in {"opened", "closed"}
  /\ LET w == [worker EXCEPT ![p] = IdleWorker]
         held == {w[q].fd : q \in Workers} \ {NoFile}
         text == Strip(worker[p].seed_hex) \o <<"\n">>
     IN  /\ worker' = w
         /\ IF worker[p].pc = "opened"
            THEN \E k \in {0, Len(text) \div 2} :
                    fs' = Collect(WriteAt0(fs, worker[p].fd, SubSeq(text, 1, k)), held)
            ELSE fs' = fs
  /\ UNCHANGED <<keyLoaded, gen, now, resp, provisioned>>

(***************************************************************************)
(* GET /generate-2fa                                                       *)
(***************************************************************************)
\* read_seed, hex_to_base32 and totp.now(): the first clock read
GenerateCall ==
  /\ gen.pc = "idle"
  /\ LET r == read_seed(fs)
         g == generate_code(r.s, now)
     IN  IF r.exc = "FileNotFoundError"
         THEN resp' = Response("generate", 500, "Seed not decrypted yet") /\ gen' = gen
         ELSE IF r.exc # "none"
         THEN resp' = Response("generate", 500, "Failed to read seed") /\ gen' = gen
         ELSE IF g.exc # "none"
         THEN resp' = Response("generate", 500, "Failed to generate TOTP") /\ gen' = gen
         ELSE gen' = [pc |-> "coded", code |-> g.code] /\ resp' = resp
  /\ UNCHANGED <<keyLoaded, fs, worker, now, provisioned>>

\* valid_for = 30 - (int(time.time()) % 30): the second clock read
GenerateReturn ==
  /\ gen.pc = "coded"
  /\ resp' = [Response("generate", 200, "ok") EXCEPT
                !.code = gen.code, !.valid_for = ValidFor(now)]
  /\ gen' = IdleGen
  /\ UNCHANGED <<keyLoaded, fs, worker, now, provisioned>>

(***************************************************************************)
(* POST /verify-2fa                                                        *)
(***************************************************************************)
Counters ==
  {c \in (timecode(StartTime) - CodeSkew)..(timecode(MaxTime) + CodeSkew) : c >= 0}

\* the codes a client may submit
SubmittedCodes ==
  {EmptyCode, ZeroCode} \cup
  {generate_otp(Secret(s).key, c).code : s \in {SeedA, SeedB}, c \in Counters}

VerifyCall(code) ==
  /\ IF code.digits = ""
     THEN resp' = Response("verify", 400, "Missing code")
     ELSE LET r == read_seed(fs)
              v == verify_totp_from_hex(r.s, code, ValidWindow, now)
          IN  IF r.exc = "FileNotFoundError"
              THEN resp' = [Response("verify", 500, "Seed not decrypted yet")
                              EXCEPT !.code = code]
              ELSE IF r.exc # "none"
              THEN resp' = [Response("verify", 500, "Failed to read seed")
                              EXCEPT !.code = code]
              ELSE IF v.exc # "none"
              THEN resp' = [Response("verify", 500, "Verification failed")
                              EXCEPT !.code = code]
              ELSE resp' = [Response("verify", 200, "ok")
                              EXCEPT !.code = code, !.valid = v.valid]
  /\ UNCHANGED <<keyLoaded, fs, worker, gen, now, provisioned>>

(***************************************************************************)
(* Environment: the clock.                                                 *)
(***************************************************************************)
Tick ==
  /\ now < MaxTime
  /\ now' = now + 1
  /\ UNCHANGED <<keyLoaded, fs, worker, gen, resp, provisioned>>

\* the codes a client holds that reads the current step's code off a device
\* provisioned with either seed, besides no code and a guess
CurrentCodes ==
  {EmptyCode, ZeroCode} \cup
  {generate_otp(Secret(s).key, timecode(now)).code : s \in {SeedA, SeedB}}

Next ==
  \/ \E p \in Workers, req \in Requests : ProvisionCall(p, req)
  \/ \E p \in Workers : SaveWrite(p)
  \/ \E p \in Workers : SaveReplace(p)
  \/ GenerateCall
  \/ GenerateReturn
  \/ \E code \in CurrentCodes : VerifyCall(code)
  \/ Tick

\* the service with concurrent workers, from an empty seed directory
Spec == Init /\ [][Next]_vars

(***************************************************************************)
(* One worker whose process may die inside save_seed_atomic.               *)
(***************************************************************************)
NextSingle ==
  \/ \E req \in Requests : ProvisionCall("w1", req)
  \/ SaveWrite("w1")
  \/ SaveReplace("w1")
  \/ Crash("w1")
  \/ GenerateCall
  \/ GenerateReturn
  \/ \E code \in CurrentCodes : VerifyCall(code)
  \/ Tick

SpecSingle == Init /\ [][NextSingle]_vars

(***************************************************************************)
(* The TOTP endpoints over a store that holds a seed, at any time of the   *)
(* window, with codes of nearby time steps submitted.                      *)
(***************************************************************************)
StoredFs(text) ==
  [dir |-> [p \in Paths |-> IF p = SEED_PATH THEN 1 ELSE NoFile],
   data |-> [i \in Inodes |-> IF i = 1 THEN text ELSE <<>>]]

InitClock ==
  /\ keyLoaded = TRUE
  /\ \E seed \in {SeedA, SeedB} :
        /\ fs = StoredFs(seed \o <<"\n">>)
        /\ provisioned = seed
  /\ worker = [p \in Workers |-> IdleWorker]
  /\ gen = IdleGen
  /\ now \in StartTime..MaxTime
  /\ resp = Response("none", 0, "")

NextClock ==
  \/ GenerateCall
  \/ GenerateReturn
  \/ \E code \in SubmittedCodes : VerifyCall(code)
  \/ Tick

SpecClock == InitClock /\ [][NextClock]_vars

(***************************************************************************)
(* The TOTP endpoints over a seed file written or damaged out of band.     *)
(***************************************************************************)
InitTamper ==
  /\ keyLoaded = TRUE
  /\ \E text \in TamperedTexts : fs = StoredFs(text)
  /\ provisioned = <<>>
  /\ worker = [p \in Workers |-> IdleWorker]
  /\ gen = IdleGen
  /\ now \in StartTime..MaxTime
  /\ resp = Response("none", 0, "")

SpecTamper == InitTamper /\ [][NextClock]_vars

(***************************************************************************)
(* Vocabulary of the properties.                                           *)
(***************************************************************************)
\* the error kind a response stands for
Kind(r) ==
  IF r.status = 200 THEN "ok"
  ELSE IF r.status = 400
  THEN IF r.detail \in {"Missing encrypted_seed", "Invalid base64", "Missing code"}
       THEN "BadRequest" ELSE "InvalidSeedFormat"
  ELSE IF r.status = 500
  THEN CASE r.detail = "Server private key not available" -> "KeyUnavailable"
         [] r.detail = "Decryption failed" -> "DecryptionFailed"
         [] r.detail = "Failed to persist seed" -> "PersistFailed"
         [] r.detail = "Seed not decrypted yet" -> "NotProvisioned"
         [] r.detail = "Failed to read seed" -> "CorruptStore"
         [] r.detail = "Failed to generate TOTP" -> "GenerationFailed"
         [] r.detail = "Verification failed" -> "VerificationFailed"
         [] OTHER -> "none"
  ELSE "none"

\* the canonical seed file as a reader finds it
SeedFile(fsys) ==
  IF fsys.dir[SEED_PATH] = NoFile THEN [present |-> FALSE, text |-> <<>>]
  ELSE [present |-> TRUE, text |-> FileText(fsys, SEED_PATH)]

\* the Seed invariant: 64 characters, each a hex digit
IsSeed(s) == Len(s) = 64 /\ \A i \in 1..Len(s) : IsHex(s[i])

\* the seeds the provisioning requests of the model carry
RequestSeeds == {SeedA, SeedB}

(***************************************************************************)
(* Properties.                                                             *)
(***************************************************************************)

\* C1: with provisioning calls of several workers interleaved step by step and
\* a reader looking at any moment, the canonical seed file, once present,
\* always holds one complete provisioned seed followed by a newline: never
\* nothing, a part of a seed, or a mix of two.
C1_SeedFileAlwaysComplete ==
  SeedFile(fs).present => SeedFile(fs).text \in {seed \o <<"\n">> : seed \in RequestSeeds}

\* C2: with a single save in flight that may be interrupted at any point
\* between opening the temporary file and the replace, the canonical seed file
\* is absent while nothing was provisioned and otherwise holds, byte for byte,
\* the seed of the last completed provisioning.
C2_InterruptedSaveKeepsSeedFile ==
  SeedFile(fs) = IF provisioned = <<>> THEN [present |-> FALSE, text |-> <<>>]
                 ELSE [present |-> TRUE, text |-> provisioned \o <<"\n">>]

\* C2 witness: a save died in the middle of its write and left half a seed in
\* the temporary file, next to an intact canonical file.
C2_Witness ==
  /\ worker["w1"].pc = "idle"
  /\ SeedFile(fs).present
  /\ fs.dir[TmpPath(SEED_PATH)] # NoFile
  /\ Len(FileText(fs, TmpPath(SEED_PATH))) \in 1..SeedLen
  /\ \E seed \in RequestSeeds :
        /\ seed # provisioned
        /\ FileText(fs, TmpPath(SEED_PATH)) = SubSeq(seed, 1, Len(FileText(fs, TmpPath(SEED_PATH))))

\* C3: at any point, a provisioning call whose input is well-formed base64 of
\* a ciphertext that does not decrypt under the loaded key is answered
\* DecryptionFailed and leaves the canonical seed file, present or absent, as
\* it was.
C3_BadCiphertextLeavesSeed ==
  [][\A p \in Workers :
       (keyLoaded /\ ProvisionCall(p, ReqGarbage)) =>
          /\ resp'.op = "provision" /\ resp'.req = ReqGarbage
          /\ Kind(resp') = "DecryptionFailed"
          /\ SeedFile(fs') = SeedFile(fs)]_vars

\* C3 witness: a bad ciphertext was just refused while a seed is stored.
C3_Witness ==
  /\ resp.op = "provision" /\ resp.req = ReqGarbage
  /\ Kind(resp) = "DecryptionFailed"
  /\ SeedFile(fs).present
  /\ provisioned \in RequestSeeds

\* C5 as stated: when the private key failed to load, every provisioning call,
\* whatever its input, is answered KeyUnavailable, and the seed directory is
\* never written.
C5_EveryInputKeyUnavailable ==
  ~keyLoaded =>
     /\ resp.op = "provision" => Kind(resp) = "KeyUnavailable"
     /\ fs = EmptyFs

\* C5 amended: when the private key failed to load, every provisioning call
\* with a non-empty input (malformed base64 included) is answered
\* KeyUnavailable and one with an empty input is answered BadRequest; every
\* call is answered at once, and the seed directory is never written.
C5_NonEmptyInputKeyUnavailable ==
  ~keyLoaded =>
     /\ resp.op = "provision" =>
          Kind(resp) = IF resp.req = ReqEmpty THEN "BadRequest" ELSE "KeyUnavailable"
     /\ \A p \in Workers : worker[p].pc = "idle"
     /\ fs = EmptyFs

\* C5 witness: without a key, malformed base64 was answered KeyUnavailable.
C5_Witness ==
  /\ ~keyLoaded
  /\ resp.op = "provision" /\ resp.req = ReqMalformed
  /\ Kind(resp) = "KeyUnavailable"

\* C6 as stated: while no provisioning has succeeded, currentCode and
\* verifyCode of any code are answered NotProvisioned.
C6_AnyCodeNotProvisioned ==
  provisioned = <<>> =>
     /\ gen.pc = "idle"
     /\ resp.op \in {"generate", "verify"} => Kind(resp) = "NotProvisioned"

\* C6 amended: while no provisioning has succeeded (failed ones included),
\* currentCode and verifyCode of any non-empty code are answered
\* NotProvisioned; verifyCode of an empty code is answered BadRequest.
C6_NonEmptyCodeNotProvisioned ==
  provisioned = <<>> =>
     /\ gen.pc = "idle"
     /\ resp.op = "generate" => Kind(resp) = "NotProvisioned"
     /\ resp.op = "verify" =>
          Kind(resp) = IF resp.code = EmptyCode THEN "BadRequest" ELSE "NotProvisioned"

\* C6 witness: a provisioning call is past its write to the temporary file,
\* none has succeeded, and a verification was just answered NotProvisioned.
C6_Witness ==
  /\ provisioned = <<>>
  /\ \E p \in Workers : worker[p].pc = "closed"
  /\ resp.op = "verify" /\ resp.code # EmptyCode
  /\ Kind(resp) = "NotProvisioned"

\* C8: after a provisioning of seed S has succeeded and until the next one
\* succeeds, every currentCode call reads S from the store and derives its
\* code from S.
C8_CodeFromLastProvisionedSeed ==
  [][(provisioned # <<>> /\ GenerateCall) =>
       /\ gen'.pc = "coded"
       /\ gen'.code = generate_otp(Secret(provisioned).key, timecode(now)).code]_vars

\* C4: when what the canonical file holds, stripped, is not a Seed (its length
\* is not 64, or it is 64 long with a character that is no hex digit),
\* currentCode and verifyCode of a code are answered CorruptStore: no code is
\* derived from it and no GenerationFailed or VerificationFailed is reported.
C4_InvalidStoreIsCorruptStore ==
  (SeedFile(fs).present /\ ~IsSeed(Strip(SeedFile(fs).text))) =>
     /\ gen.pc = "idle"
     /\ resp.op = "generate" => Kind(resp) = "CorruptStore"
     /\ (resp.op = "verify" /\ resp.code # EmptyCode) => Kind(resp) = "CorruptStore"

\* C7: with the stored seed fixed and a window of 1, a code of time-step
\* counter C is accepted when the verification runs in step C-1, C or C+1 and
\* refused when it runs in step C-2 or C+2.
C7_SkewOfOneStep ==
  [][\A code \in SubmittedCodes :
       (/\ VerifyCall(code)
        /\ code.digits = "hotp"
        /\ code.key = Secret(provisioned).key) =>
          LET C == code.counter
              V == now \div 30
          IN  /\ Kind(resp') = "ok"
              /\ V \in {C - 1, C, C + 1} => resp'.valid
              /\ V \in {C - 2, C + 2} => ~resp'.valid]_vars

\* C7 witness: a code of the step before the current one was just accepted.
C7_Witness ==
  /\ resp.op = "verify" /\ Kind(resp) = "ok" /\ resp.valid
  /\ resp.code.digits = "hotp"
  /\ resp.code.key = Secret(provisioned).key
  /\ resp.code.counter = (now \div 30) - 1

\* C9: the validFor a generate call returns is 30 - (T mod 30) for the second
\* T at which it is computed; it lies in 1..30, is 30 when T mod 30 = 0 and 1
\* when T mod 30 = 29.
C9_ValidForRange ==
  [][GenerateReturn =>
       /\ Kind(resp') = "ok"
       /\ resp'.valid_for \in 1..30
       /\ resp'.valid_for + (now % 30) = 30
       /\ now % 30 = 0 => resp'.valid_for = 30
       /\ now % 30 = 29 => resp'.valid_for = 1]_vars

\* C9 witness: a code was just returned in the first second of a time step,
\* valid for 30 seconds.
C9_Witness ==
  /\ resp.op = "generate" /\ Kind(resp) = "ok"
  /\ now % 30 = 0
  /\ resp.valid_for = 30

\* C10: the code and the validFor of one generate call belong to one instant:
\* the code returned is the code of the time step in which validFor was
\* computed, also when the clock advances between the two clock reads.
C10_CodeAndValidForOfOneStep ==
  [][GenerateReturn => resp'.code.counter = now \div 30]_vars

====
